---- MODULE Spec2Model ----
(***************************************************************************)
(* Network monitor request correlation (NetworkMonitor utils):             *)
(* eventsByRequestId, eventsToMap, getDocumentType, findHeader and          *)
(* partialRequestsToCompleteSummaries.                                      *)
(*                                                                         *)
(* JavaScript strings are modelled as sequences of one-character strings,   *)
(* so that toLowerCase, split, match and the regular expressions of the     *)
(* source are computed character by character.  Execution points are       *)
(* sequences of decimal digits.                                            *)
(***************************************************************************)
EXTENDS Integers, Sequences, FiniteSets, TLC

VARIABLES requests, events, types, eventsMap, result

vars == <<requests, events, types, eventsMap, result>>

(***************************************************************************)
(* Bounds of the model                                                     *)
(***************************************************************************)
\* longest event list the arrival specification builds
MaxEvents == 4

\* number of request records of the batch specification
MaxRequests == 3

\* longest header list of a response in the batch specification
MaxHeaders == 2

\* largest filter set of the batch specification
MaxTypes == 2

(***************************************************************************)
(* String literals                                                         *)
(***************************************************************************)
\* the key getDocumentType looks up
ContentTypeKey ==
    <<"c", "o", "n", "t", "e", "n", "t", "-", "t", "y", "p", "e">>

NameContentTypeMixed ==
    <<"C", "o", "n", "t", "e", "n", "t", "-", "T", "y", "p", "e">>

NameAccept ==
    <<"a", "c", "c", "e", "p", "t">>

\* the default of getDocumentType
Unknown ==
    <<"u", "n", "k", "n", "o", "w", "n">>

CtJsonCharset ==
    <<"a", "p", "p", "l", "i", "c", "a", "t", "i", "o", "n", "/", "j", "s", "o", "n", ";", " ", "c", "h", "a", "r", "s", "e", "t", "=", "u", "t", "f", "-", "8">>

CtHtmlTwoParams ==
    <<"t", "e", "x", "t", "/", "h", "t", "m", "l", ";", " ", "c", "h", "a", "r", "s", "e", "t", "=", "u", "t", "f", "-", "8", ";", " ", "b", "o", "u", "n", "d", "a", "r", "y", "=", "x">>

CtWoff2 ==
    <<"f", "o", "n", "t", "/", "w", "o", "f", "f", "2">>

CtPng ==
    <<"i", "m", "a", "g", "e", "/", "p", "n", "g">>

CtCss ==
    <<"t", "e", "x", "t", "/", "c", "s", "s">>

CtSvg ==
    <<"i", "m", "a", "g", "e", "/", "s", "v", "g", "+", "x", "m", "l">>

CtCommaList ==
    <<"t", "e", "x", "t", "/", "p", "l", "a", "i", "n", ",", " ", "t", "e", "x", "t", "/", "h", "t", "m", "l">>

CtFontBare ==
    <<"f", "o", "n", "t">>

CtTtf ==
    <<"a", "p", "p", "l", "i", "c", "a", "t", "i", "o", "n", "/", "x", "-", "f", "o", "n", "t", "-", "t", "t", "f">>

CtJpegTtf ==
    <<"m", "u", "l", "t", "i", "p", "a", "r", "t", "/", "j", "p", "e", "g", "+", "t", "t", "f">>

\* keys of REQUEST_TYPES
Key_xhr ==
    <<"x", "h", "r">>

Key_javascript ==
    <<"j", "a", "v", "a", "s", "c", "r", "i", "p", "t">>

Key_html ==
    <<"h", "t", "m", "l">>

Key_css ==
    <<"c", "s", "s">>

Key_font ==
    <<"f", "o", "n", "t">>

Key_img ==
    <<"i", "m", "g">>

Key_manifest ==
    <<"m", "a", "n", "i", "f", "e", "s", "t">>

Key_media ==
    <<"m", "e", "d", "i", "a">>

Key_other ==
    <<"o", "t", "h", "e", "r">>

Key_wasm ==
    <<"w", "a", "s", "m">>

Key_websocket ==
    <<"w", "e", "b", "s", "o", "c", "k", "e", "t">>

\* literals of the filter's regular expressions
Pat_json ==
    <<"j", "s", "o", "n">>

Pat_woff ==
    <<"w", "o", "f", "f">>

Pat_ttf ==
    <<"t", "t", "f">>

Pat_svg ==
    <<"s", "v", "g">>

Pat_jpeg ==
    <<"j", "p", "e", "g">>

Pat_png ==
    <<"p", "n", "g">>

Pat_gif ==
    <<"g", "i", "f">>

\* request URLs
UrlA ==
    <<"h", "t", "t", "p", "s", ":", "/", "/", "a", ".", "t", "e", "s", "t", "/", "x", "?", "y", "=", "1">>

UrlB ==
    <<"h", "t", "t", "p", "s", ":", "/", "/", "b", ".", "t", "e", "s", "t", "/">>

UrlBad ==
    <<"/", "n", "o", "-", "s", "c", "h", "e", "m", "e">>

(***************************************************************************)
(* JavaScript string primitives                                            *)
(***************************************************************************)
UpperCase ==
    <<"A", "B", "C", "D", "E", "F", "G", "H", "I", "J", "K", "L", "M",
      "N", "O", "P", "Q", "R", "S", "T", "U", "V", "W", "X", "Y", "Z">>

LowerCase ==
    <<"a", "b", "c", "d", "e", "f", "g", "h", "i", "j", "k", "l", "m",
      "n", "o", "p", "q", "r", "s", "t", "u", "v", "w", "x", "y", "z">>

\* String.prototype.toLowerCase on one character
LowerChar(c) ==
    IF \E i \in 1..26 : UpperCase[i] = c
    THEN LowerCase[CHOOSE i \in 1..26 : UpperCase[i] = c]
    ELSE c

\* String.prototype.toLowerCase
toLowerCase(s) ==
    [i \in 1..Len(s) |-> LowerChar(s[i])]

\* s.match(/pat/) for a literal pattern: pat occurs somewhere in s
Contains(s, pat) ==
    \E i \in 1..(Len(s) - Len(pat) + 1) : SubSeq(s, i, i + Len(pat) - 1) = pat

\* positions of s holding a character of cs
Positions(s, cs) ==
    {i \in 1..Len(s) : s[i] \in cs}

Max(S) ==
    CHOOSE x \in S : \A y \in S : y <= x

Min(S) ==
    CHOOSE x \in S : \A y \in S : x <= y

\* s.split("/")?.[1]: the text between the first and the second "/",
\* Absent when s has no "/"
SplitSecond(s) ==
    LET slashes == Positions(s, {"/"})
    IN  IF slashes = {}
        THEN [present |-> FALSE, value |-> <<>>]
        ELSE LET first == Min(slashes)
                 rest  == slashes \ {first}
                 stop  == IF rest = {} THEN Len(s) + 1 ELSE Min(rest)
             IN  [present |-> TRUE, value |-> SubSeq(s, first + 1, stop - 1)]

(***************************************************************************)
(* Header utilities                                                        *)
(***************************************************************************)
\* headers?.find(h => h.name.toLowerCase() === key)?.value
findHeader(headers, key) ==
    LET hits == {i \in 1..Len(headers) : toLowerCase(headers[i].name) = key}
    IN  IF hits = {}
        THEN [present |-> FALSE, value |-> <<>>]
        ELSE [present |-> TRUE, value |-> headers[Min(hits)].value]

\* contentType.match(/^(.*)[,;]/)?.[1]: the greedy group stops at the last
\* "," or ";" of the value
MatchBeforeDelimiter(contentType) ==
    LET delims == Positions(contentType, {",", ";"})
    IN  IF delims = {}
        THEN [present |-> FALSE, value |-> <<>>]
        ELSE [present |-> TRUE, value |-> SubSeq(contentType, 1, Max(delims) - 1)]

getDocumentType(headers) ==
    LET found       == findHeader(headers, ContentTypeKey)
        contentType == IF found.present /\ found.value # <<>>
                       THEN found.value
                       ELSE Unknown
        m           == MatchBeforeDelimiter(contentType)
    IN  IF m.present /\ m.value # <<>> THEN m.value ELSE contentType

\* (documentType?.split("/")?.[1] || documentType)
deriveType(documentType) ==
    LET part == SplitSecond(documentType)
    IN  IF part.present /\ part.value # <<>> THEN part.value ELSE documentType

\* variant: the font alias tests /woff/ only
typeFilter_FontWoffOnly(row, tys) ==
    \/ Cardinality(tys) = 0
    \/ row.type \in tys
    \/ Key_xhr \in tys /\ Contains(row.type, Pat_json)
    \/ Key_font \in tys /\ Contains(row.type, Pat_woff)
    \/ Key_img \in tys /\ (\/ Contains(row.type, Pat_svg)
                           \/ Contains(row.type, Pat_jpeg)
                           \/ Contains(row.type, Pat_png)
                           \/ Contains(row.type, Pat_gif))

\* the callback of the final .filter of partialRequestsToCompleteSummaries
typeFilter(row, tys) ==
    \/ Cardinality(tys) = 0
    \/ row.type \in tys
    \/ Key_xhr \in tys /\ Contains(row.type, Pat_json)
    \/ Key_font \in tys /\ (Contains(row.type, Pat_woff) \/ Contains(row.type, Pat_ttf))
    \/ Key_img \in tys /\ (\/ Contains(row.type, Pat_svg)
                           \/ Contains(row.type, Pat_jpeg)
                           \/ Contains(row.type, Pat_png)
                           \/ Contains(row.type, Pat_gif))

(***************************************************************************)
(* URL parsing                                                             *)
(***************************************************************************)
\* new URL(url) without a base throws unless url starts with a scheme
\* (letters followed by ":")
UrlParses(url) ==
    \E i \in 2..Len(url) :
        /\ url[i] = ":"
        /\ \A j \in 1..(i - 1) : \E k \in 1..26 : LowerCase[k] = LowerChar(url[j])

(***************************************************************************)
(* Execution points                                                        *)
(***************************************************************************)
\* a < b for two JavaScript strings of digits (code unit order)
RECURSIVE StringLess(_, _)
StringLess(a, b) ==
    IF a = <<>> THEN b # <<>>
    ELSE IF b = <<>> THEN FALSE
    ELSE IF Head(a) # Head(b) THEN Head(a) < Head(b)
    ELSE StringLess(Tail(a), Tail(b))

\* protocol/utils compareNumericStrings: length first, then the string order
compareNumericStrings(a, b) ==
    IF Len(a) < Len(b) THEN -1
    ELSE IF Len(a) > Len(b) THEN 1
    ELSE IF StringLess(a, b) THEN -1
    ELSE IF StringLess(b, a) THEN 1
    ELSE 0

(***************************************************************************)
(* Grouping of events                                                      *)
(***************************************************************************)
Kinds ==
    {"request", "response", "request-body", "response-body"}

\* events.reduce((acc, eventInfo) => { acc[eventInfo.id] = [eventInfo, ...(acc[eventInfo.id] || [])] }, {})
RECURSIVE eventsByRequestId(_)
eventsByRequestId(evs) ==
    IF evs = <<>>
    THEN [id \in {} |-> <<>>]
    ELSE LET acc       == eventsByRequestId(SubSeq(evs, 1, Len(evs) - 1))
             eventInfo == evs[Len(evs)]
         IN  [id \in (DOMAIN acc) \cup {eventInfo.id} |->
                 IF id = eventInfo.id
                 THEN <<eventInfo>> \o (IF id \in DOMAIN acc THEN acc[id] ELSE <<>>)
                 ELSE acc[id]]

\* eventsMap[r.id]: undefined for an id without events, which keyBy reads
\* as an empty collection
Bucket(em, id) ==
    IF id \in DOMAIN em THEN em[id] ELSE <<>>

\* keyBy(events, e => e.event.kind): a later element of the list overwrites
\* an earlier one of the same kind; a kind is <<>> when absent, <<e>> otherwise
RECURSIVE eventsToMap(_)
eventsToMap(bucket) ==
    IF bucket = <<>>
    THEN [k \in Kinds |-> <<>>]
    ELSE [eventsToMap(SubSeq(bucket, 1, Len(bucket) - 1))
            EXCEPT ![bucket[Len(bucket)].kind] = <<bucket[Len(bucket)]>>]

(***************************************************************************)
(* partialRequestsToCompleteSummaries                                      *)
(***************************************************************************)
\* variant: every request is joined with the bucket of the first request
attachEvents_FirstBucket(reqs, em) ==
    [i \in 1..Len(reqs) |->
        [id |-> reqs[i].id, point |-> reqs[i].point, time |-> reqs[i].time,
         events |-> eventsToMap(Bucket(em, reqs[1].id))]]

\* .map(r => ({ ...r, events: eventsToMap(eventsMap[r.id]) }))
attachEvents(reqs, em) ==
    [i \in 1..Len(reqs) |->
        [id |-> reqs[i].id, point |-> reqs[i].point, time |-> reqs[i].time,
         events |-> eventsToMap(Bucket(em, reqs[i].id))]]

\* !!r.events.request && !!r.events.response
isComplete(r) ==
    r.events["request"] # <<>> /\ r.events["response"] # <<>>

\* host, name and queryParams call new URL(request.event.requestUrl)
rowThrows(r) ==
    ~UrlParses(r.events["request"][1].requestUrl)

\* the object literal returned by the second .map; domain, name and
\* queryParams are results of new URL and are carried by rowThrows, the
\* header lists and triggerPoint are copied through
toSummary(r) ==
    LET request      == r.events["request"][1]
        response     == r.events["response"][1]
        documentType == getDocumentType(response.responseHeaders)
    IN  [documentType    |-> documentType,
         end             |-> response.time,
         hasResponseBody |-> r.events["response-body"] # <<>>,
         hasRequestBody  |-> r.events["request-body"] # <<>>,
         id              |-> r.id,
         method          |-> request.requestMethod,
         point           |-> [point |-> r.point, time |-> r.time],
         start           |-> request.time,
         status          |-> response.responseStatus,
         time            |-> response.time - request.time,
         type            |-> deriveType(documentType),
         url             |-> request.requestUrl]

\* Array.prototype.sort is stable: insertion after the elements that do not
\* compare greater
RECURSIVE InsertStable(_, _)
InsertStable(sorted, x) ==
    IF sorted = <<>>
    THEN <<x>>
    ELSE IF compareNumericStrings(sorted[Len(sorted)].key, x.key) <= 0
         THEN Append(sorted, x)
         ELSE Append(InsertStable(SubSeq(sorted, 1, Len(sorted) - 1), x),
                     sorted[Len(sorted)])

RECURSIVE SortStable(_)
SortStable(pairs) ==
    IF pairs = <<>>
    THEN <<>>
    ELSE InsertStable(SortStable(SubSeq(pairs, 1, Len(pairs) - 1)), pairs[Len(pairs)])

\* variant: the summaries are returned in the order of the request list
sortSummaries_Unsorted(summaries) ==
    summaries

\* summaries.sort((a, b) => compareNumericStrings(a.point.point, b.point.point))
sortSummaries(summaries) ==
    LET pairs  == [i \in 1..Len(summaries) |->
                      [key |-> summaries[i].point.point, val |-> summaries[i]]]
        sorted == SortStable(pairs)
    IN  [i \in 1..Len(summaries) |-> sorted[i].val]

\* variant: the request list is also sorted in place
sortStep_SortsRequests(arrays) ==
    LET pairs  == [i \in 1..Len(arrays.requests) |->
                      [key |-> arrays.requests[i].point, val |-> arrays.requests[i]]]
        sorted == SortStable(pairs)
    IN  [arrays EXCEPT !.requests = [i \in 1..Len(arrays.requests) |-> sorted[i].val],
                       !.summaries = sortSummaries(arrays.summaries)]

\* the arrays the call holds references to: the caller's requests and events
\* and the fresh array summaries; sort works in place on summaries
sortStep(arrays) ==
    [arrays EXCEPT !.summaries = sortSummaries(arrays.summaries)]

\* the rows that pass the final .filter
filterRows(rows, tys) ==
    SelectSeq(rows, LAMBDA row : typeFilter(row, tys))

\* one call: the arrays after it, the grouping it built and what it returned
partialRequestsToCompleteSummaries(reqs, evs, tys) ==
    LET em       == eventsByRequestId(evs)
        joined   == SelectSeq(attachEvents(reqs, em), isComplete)
        throws   == \E i \in 1..Len(joined) : rowThrows(joined[i])
        rows     == [i \in 1..Len(joined) |-> toSummary(joined[i])]
        arrays   == [requests |-> reqs, events |-> evs,
                     summaries |-> IF throws THEN <<>> ELSE filterRows(rows, tys)]
        after    == IF throws THEN arrays ELSE sortStep(arrays)
    IN  [requests  |-> after.requests,
         events    |-> after.events,
         types     |-> tys,
         eventsMap |-> em,
         result    |-> [state     |-> IF throws THEN "threw" ELSE "returned",
                        summaries |-> after.summaries]]

(***************************************************************************)
(* Inputs                                                                  *)
(***************************************************************************)
\* RequestInfo
RequestRecord(id, point) ==
    [id |-> id, point |-> point, time |-> 10 * id]

\* RequestEventInfo with event.kind = "request"
RequestOpen(id, t, url) ==
    [id |-> id, time |-> t, kind |-> "request", requestUrl |-> url,
     requestMethod |-> "GET", responseStatus |-> 0, responseHeaders |-> <<>>]

\* RequestEventInfo with event.kind = "response"
Response(id, t, headers) ==
    [id |-> id, time |-> t, kind |-> "response", requestUrl |-> <<>>,
     requestMethod |-> "", responseStatus |-> 200, responseHeaders |-> headers]

\* RequestEventInfo with event.kind = "request-body" or "response-body"
Body(id, t, kind) ==
    [id |-> id, time |-> t, kind |-> kind, requestUrl |-> <<>>,
     requestMethod |-> "", responseStatus |-> 0, responseHeaders |-> <<>>]

Header(name, value) ==
    [name |-> name, value |-> value]

JsonHeaders ==
    <<Header(ContentTypeKey, CtJsonCharset)>>

GoodUrl(id) ==
    IF id = 1 THEN UrlA ELSE UrlB

\* execution points "9", "12", "20" and "100"
Points ==
    {<<9>>, <<1, 2>>, <<2, 0>>, <<1, 0, 0>>}

\* request ids of the arrival specification
ArrivalIds ==
    {1, 2}

ArrivalRequests ==
    {<<RequestRecord(1, <<1, 0, 0>>), RequestRecord(2, <<2, 0>>)>>}

\* the events that can arrive at time t
ArrivalEvents(t) ==
    UNION {{RequestOpen(id, t, GoodUrl(id)),
            RequestOpen(id, t, UrlBad),
            Response(id, t, JsonHeaders),
            Body(id, t, "request-body"),
            Body(id, t, "response-body")} : id \in ArrivalIds}

HeaderNames ==
    {ContentTypeKey, NameContentTypeMixed, NameAccept}

ContentTypes ==
    {CtJsonCharset, CtHtmlTwoParams, CtWoff2, CtPng, CtCss, CtSvg,
     CtCommaList, CtFontBare, CtTtf, CtJpegTtf}

\* header values of the header lists: no parameter, one parameter, two
\* parameters, a comma list, no subtype
HeaderValues ==
    {CtCss, CtJsonCharset, CtHtmlTwoParams, CtCommaList, CtFontBare}

Headers ==
    {Header(n, v) : n \in HeaderNames, v \in HeaderValues}

HeaderLists ==
    UNION {[1..n -> Headers] : n \in 0..MaxHeaders}

\* keys of REQUEST_TYPES
TypeKeys ==
    {Key_xhr, Key_javascript, Key_html, Key_css, Key_font, Key_img,
     Key_manifest, Key_media, Key_other, Key_wasm, Key_websocket}

TypeSets ==
    {t \in SUBSET TypeKeys : Cardinality(t) <= MaxTypes}

\* what the event list holds for one request id in the batch specification
Patterns ==
    {"requestOnly", "complete", "badUrl"}

PatternEvents(id, pat) ==
    IF pat = "requestOnly" THEN <<RequestOpen(id, 2 * id, GoodUrl(id))>>
    ELSE IF pat = "complete"
         THEN <<RequestOpen(id, 2 * id, GoodUrl(id)), Response(id, 2 * id + 1, JsonHeaders)>>
    ELSE <<RequestOpen(id, 2 * id, UrlBad), Response(id, 2 * id + 1, JsonHeaders)>>

RECURSIVE BatchEvents(_, _)
BatchEvents(pats, n) ==
    IF n = 0 THEN <<>> ELSE BatchEvents(pats, n - 1) \o PatternEvents(n, pats[n])

NotRun ==
    [state |-> "none", summaries |-> <<>>]

(***************************************************************************)
(* Arrival specification: events arrive one at a time and the summaries    *)
(* are recomputed from the lists after every change                        *)
(***************************************************************************)
Recompute(reqs, evs, tys) ==
    LET call == partialRequestsToCompleteSummaries(reqs, evs, tys)
    IN  /\ requests' = call.requests
        /\ events' = call.events
        /\ types' = call.types
        /\ eventsMap' = call.eventsMap
        /\ result' = call.result

Init ==
    /\ requests \in ArrivalRequests
    /\ events = <<>>
    /\ types = {}
    /\ eventsMap = eventsByRequestId(<<>>)
    /\ result = [state |-> "returned", summaries |-> <<>>]

Receive ==
    /\ Len(events) < MaxEvents
    /\ \E e \in ArrivalEvents(Len(events) + 1) :
          Recompute(requests, Append(events, e), types)

ToggleType ==
    Recompute(requests, events, IF Key_css \in types THEN {} ELSE {Key_css})

Next ==
    \/ Receive
    \/ ToggleType

Spec ==
    Init /\ [][Next]_vars

(***************************************************************************)
(* Batch specification: one call on lists drawn from bounded sets          *)
(***************************************************************************)
BatchInitSort ==
    \E pts \in [1..MaxRequests -> Points], pats \in [1..MaxRequests -> Patterns] :
        /\ requests = [i \in 1..MaxRequests |-> RequestRecord(i, pts[i])]
        /\ events = BatchEvents(pats, MaxRequests)
        /\ types = {}

BatchInitHeaders ==
    \E hs \in HeaderLists :
        /\ requests = <<RequestRecord(1, <<9>>)>>
        /\ events = <<RequestOpen(1, 1, UrlA), Response(1, 2, hs)>>
        /\ types = {}

BatchInitTypes ==
    \E ct \in ContentTypes, tys \in TypeSets :
        /\ requests = <<RequestRecord(1, <<9>>)>>
        /\ events = <<RequestOpen(1, 1, UrlA), Response(1, 2, <<Header(ContentTypeKey, ct)>>)>>
        /\ types = tys

BatchInit ==
    /\ BatchInitSort \/ BatchInitHeaders \/ BatchInitTypes
    /\ eventsMap = eventsByRequestId(<<>>)
    /\ result = NotRun

Run ==
    /\ result.state = "none"
    /\ Recompute(requests, events, types)

BatchNext ==
    Run

BatchSpec ==
    BatchInit /\ [][BatchNext]_vars

(***************************************************************************)
(* Vocabulary of the properties                                            *)
(***************************************************************************)
\* the numeric value of a string of digits
RECURSIVE NumVal(_)
NumVal(p) ==
    IF p = <<>> THEN 0 ELSE 10 * NumVal(SubSeq(p, 1, Len(p) - 1)) + p[Len(p)]

HasEvent(id, kind) ==
    \E i \in 1..Len(events) : events[i].id = id /\ events[i].kind = kind

\* the events of one id, and of one id and kind, in the order of the event list
EventsOf(id) ==
    SelectSeq(events, LAMBDA e : e.id = id)

EventsOfKind(id, kind) ==
    SelectSeq(events, LAMBDA e : e.id = id /\ e.kind = kind)

SummariesOf(id) ==
    {i \in 1..Len(result.summaries) : result.summaries[i].id = id}

RequestIds ==
    {requests[i].id : i \in 1..Len(requests)}

\* the complete exchanges of the current lists, with the events used for them
Joined ==
    SelectSeq(attachEvents(requests, eventsMap), isComplete)

\* the header value up to its first "," or ";"
BeforeFirstDelimiter(value) ==
    LET delims == Positions(value, {",", ";"})
    IN  IF delims = {} THEN value ELSE SubSeq(value, 1, Min(delims) - 1)

\* the alias rules of the type filter
AliasPatterns(key) ==
    IF key = Key_xhr THEN {Pat_json}
    ELSE IF key = Key_font THEN {Pat_woff, Pat_ttf}
    ELSE IF key = Key_img THEN {Pat_svg, Pat_jpeg, Pat_png, Pat_gif}
    ELSE {}

Keeps(type, tys) ==
    \/ tys = {}
    \/ type \in tys
    \/ \E key \in tys : \E pat \in AliasPatterns(key) : Contains(type, pat)

(***************************************************************************)
(* Properties                                                              *)
(***************************************************************************)
\* C1: every returned summary has an id with a 'request' and a 'response'
\* event in the event list, and an id with a 'request' event but no
\* 'response' event has no summary, whatever the other ids are.
C1_OnlyCompleteExchanges ==
    /\ \A i \in 1..Len(result.summaries) :
          /\ HasEvent(result.summaries[i].id, "request")
          /\ HasEvent(result.summaries[i].id, "response")
    /\ \A id \in RequestIds :
          (HasEvent(id, "request") /\ ~HasEvent(id, "response"))
              => SummariesOf(id) = {}

\* C1 witness: the call returned summaries for two complete ids while a third
\* id has only its 'request' event.
C1_Witness ==
    /\ result.state = "returned"
    /\ Len(result.summaries) = 2
    /\ \E id \in RequestIds :
          HasEvent(id, "request") /\ ~HasEvent(id, "response") /\ SummariesOf(id) = {}

\* C2: for every id and kind, the representative event of that kind taken
\* from the id's bucket is the last event of that id and kind in the event
\* list.
C2_LastSeenWins ==
    \A id \in DOMAIN eventsMap : \A kind \in Kinds :
        EventsOfKind(id, kind) # <<>> =>
            eventsToMap(eventsMap[id])[kind]
                = <<EventsOfKind(id, kind)[Len(EventsOfKind(id, kind))]>>

\* C3: when a complete exchange carries a URL that does not parse, the call
\* still returns, and every other complete exchange has its summary.
C3_InvalidUrlSkipped ==
    (\E i \in 1..Len(Joined) : rowThrows(Joined[i])) =>
        /\ result.state = "returned"
        /\ \A i \in 1..Len(Joined) :
              (~rowThrows(Joined[i]) /\ Keeps(toSummary(Joined[i]).type, types))
                  => SummariesOf(Joined[i].id) # {}

\* C4: the returned list is in ascending numeric order of point.point.
C4_AscendingPoints ==
    result.state = "returned" =>
        \A i \in 1..(Len(result.summaries) - 1) :
            NumVal(result.summaries[i].point.point)
                <= NumVal(result.summaries[i + 1].point.point)

\* C4 witness: requests with points "100", "20", "9" come out as "9", "20", "100".
C4_Witness ==
    /\ result.state = "returned"
    /\ [i \in 1..Len(requests) |-> requests[i].point] = <<<<1, 0, 0>>, <<2, 0>>, <<9>>>>
    /\ [i \in 1..Len(result.summaries) |-> result.summaries[i].point.point]
           = <<<<9>>, <<2, 0>>, <<1, 0, 0>>>>

\* C5: when the call returns, a complete exchange is in the output exactly
\* once if the filter set is empty, holds its type, or holds an alias key
\* (xhr: json; font: woff, ttf; img: svg, jpeg, png, gif) whose pattern
\* occurs in the type, and is not in the output otherwise.
C5_TypeFilter ==
    result.state = "returned" =>
        \A i \in 1..Len(Joined) :
            Cardinality(SummariesOf(Joined[i].id))
                = IF Keeps(toSummary(Joined[i]).type, types) THEN 1 ELSE 0

\* C5 witness: a type matched by the font alias through "ttf" and by the img
\* alias through "jpeg" is kept once under the filter set {font, img}.
C5_Witness ==
    /\ result.state = "returned"
    /\ types = {Key_font, Key_img}
    /\ Len(result.summaries) = 1
    /\ Contains(result.summaries[1].type, Pat_ttf)
    /\ Contains(result.summaries[1].type, Pat_jpeg)

\* C6: the grouping maps each id of the event list to exactly the events of
\* that id, in the order of the event list.
C6_OriginalOrder ==
    /\ DOMAIN eventsMap = {events[i].id : i \in 1..Len(events)}
    /\ \A id \in DOMAIN eventsMap : eventsMap[id] = EventsOf(id)

\* C7: the documentType of a summary is the content-type value of its
\* response up to the first "," or ";", and "unknown" without such a header.
C7_BareMimeType ==
    \A i \in 1..Len(Joined) :
        LET headers == Joined[i].events["response"][1].responseHeaders
            found   == findHeader(headers, ContentTypeKey)
        IN  \A j \in SummariesOf(Joined[i].id) :
                result.summaries[j].documentType
                    = IF found.present THEN BeforeFirstDelimiter(found.value) ELSE Unknown

\* C8: with an empty filter set, an id with a 'request' and a 'response'
\* event has exactly one summary, whose body flags tell whether a
\* 'request-body' and a 'response-body' event exist for the id.
C8_ExactlyOneSummary ==
    types = {} =>
        \A id \in RequestIds :
            (HasEvent(id, "request") /\ HasEvent(id, "response")) =>
                /\ Cardinality(SummariesOf(id)) = 1
                /\ \A j \in SummariesOf(id) :
                      /\ result.summaries[j].hasRequestBody = HasEvent(id, "request-body")
                      /\ result.summaries[j].hasResponseBody = HasEvent(id, "response-body")

\* C9: a call leaves the request list, the event list and the filter set as
\* they were.
C9_InputsUnchanged ==
    [][requests' = requests /\ events' = events /\ types' = types]_vars

\* C9 witness: the call returned two summaries in the opposite order of
\* their requests, which are still in the caller's order.
C9_Witness ==
    /\ result.state = "returned"
    /\ Len(result.summaries) >= 2
    /\ \E i, j \in 1..Len(requests) :
          /\ i < j
          /\ NumVal(requests[i].point) > NumVal(requests[j].point)
          /\ \E a, b \in 1..Len(result.summaries) :
                /\ b < a
                /\ result.summaries[a].id = requests[i].id
                /\ result.summaries[b].id = requests[j].id

\* C10: when an event is appended and the request list and the filter set
\* stay, every id that had a summary keeps one with the same method, url,
\* status, documentType, start, end and point, and its body flags only go
\* from false to true.
C10_MonotoneUnderArrival ==
    [][(/\ Len(events') = Len(events) + 1
        /\ SubSeq(events', 1, Len(events)) = events
        /\ requests' = requests
        /\ types' = types)
       => \A i \in 1..Len(result.summaries) :
             \E j \in 1..Len(result'.summaries) :
                LET old == result.summaries[i]
                    new == result'.summaries[j]
                IN  /\ new.id = old.id
                    /\ new.method = old.method
                    /\ new.url = old.url
                    /\ new.status = old.status
                    /\ new.documentType = old.documentType
                    /\ new.start = old.start
                    /\ new.end = old.end
                    /\ new.point = old.point
                    /\ old.hasRequestBody => new.hasRequestBody
                    /\ old.hasResponseBody => new.hasResponseBody]_vars

====
